---- MODULE Spec2Model ----
(***************************************************************************)
(* Model of the py-license-auditor launcher                                *)
(* (python/py_license_auditor/__init__.py): get_binary_path() and main().  *)
(*                                                                         *)
(* Strings that the code transforms character by character (the results    *)
(* of platform.system() and platform.machine(), which are lower-cased)     *)
(* are sequences of one-character strings.  Binary names are the string    *)
(* literals of the source.  A path is the sequence of its components, and  *)
(* the text of a path handed to the child process is represented by that   *)
(* same sequence.                                                          *)
(***************************************************************************)
EXTENDS Integers, Sequences, FiniteSets, TLC

VARIABLES
    system,       \* platform.system() as reported by the host
    machine,      \* platform.machine() as reported by the host
    argv,         \* sys.argv of the launcher
    files,        \* paths that exist below the package directory
    modes,        \* permission bits of each existing path
    pc,           \* position of main()
    binary_name,  \* <<>> or <<name>>: local of get_binary_path
    binary_path,  \* <<>> or the path selected by get_binary_path
    exc,          \* exception in flight
    result,       \* <<>> or <<returncode>> of subprocess.run
    childArgv,    \* <<>> or the argument list the child was started with
    stderr,       \* lines written by the launcher to standard error
    stdout,       \* lines written by the launcher to standard output
    exitStatus,   \* <<>> or <<code>> the process exited with
    log           \* history: steps performed, in order

vars == <<system, machine, argv, files, modes, pc, binary_name, binary_path,
          exc, result, childArgv, stderr, stdout, exitStatus, log>>

----------------------------------------------------------------------------
(* Bounds *)

MaxArgs == 2
MaxSignal == 1
MaxReturnCode == 2

ArgValues == {"--format", "json"}
ReturnCodes == (0 - MaxSignal)..MaxReturnCode

----------------------------------------------------------------------------
(* str.lower() *)

UpperChars == <<"A","B","C","D","E","F","G","H","I","J","K","L","M",
                "N","O","P","Q","R","S","T","U","V","W","X","Y","Z">>
LowerChars == <<"a","b","c","d","e","f","g","h","i","j","k","l","m",
                "n","o","p","q","r","s","t","u","v","w","x","y","z">>

ToLower ==
    [c \in {UpperChars[i] : i \in 1..Len(UpperChars)} |->
        LowerChars[CHOOSE i \in 1..Len(UpperChars) : UpperChars[i] = c]]

LowerChar(c) == IF c \in DOMAIN ToLower THEN ToLower[c] ELSE c

Lower(s) == [i \in 1..Len(s) |-> LowerChar(s[i])]

----------------------------------------------------------------------------
(* String literals of get_binary_path that are compared with lower-cased   *)
(* platform strings.                                                       *)

s_linux   == <<"l","i","n","u","x">>
s_darwin  == <<"d","a","r","w","i","n">>
s_windows == <<"w","i","n","d","o","w","s">>
s_x86_64  == <<"x","8","6","_","6","4">>
s_amd64   == <<"a","m","d","6","4">>
s_aarch64 == <<"a","a","r","c","h","6","4">>
s_arm64   == <<"a","r","m","6","4">>

(* Values the host may report. *)
Systems ==
    { <<"L","i","n","u","x">>, s_linux,
      <<"D","a","r","w","i","n">>, <<"D","A","R","W","I","N">>,
      <<"W","i","n","d","o","w","s">>,
      <<"F","r","e","e","B","S","D">>,
      <<"J","a","v","a">>,
      <<>> }

Machines ==
    { s_x86_64, <<"X","8","6","_","6","4">>,
      s_amd64, <<"A","M","D","6","4">>,
      s_aarch64,
      s_arm64, <<"A","R","M","6","4">>,
      <<"i","6","8","6">>,
      <<>> }

----------------------------------------------------------------------------
(* Paths *)

PackageDir == <<"py_license_auditor">>
BinDir == PackageDir \o <<"bin">>

BinaryNames ==
    { "py-license-auditor-linux-x86_64",
      "py-license-auditor-linux-aarch64",
      "py-license-auditor-macos-x86_64",
      "py-license-auditor-macos-aarch64",
      "py-license-auditor-windows-x86_64.exe" }

BinaryPaths == { BinDir \o <<n>> : n \in BinaryNames }

ModeRunnable == 493   \* 0o755

----------------------------------------------------------------------------
(* Exceptions *)

NoExc == [type |-> "None", msg |-> "", arg |-> <<>>, code |-> 0]
RuntimeError(m, a) == [type |-> "RuntimeError", msg |-> m, arg |-> a, code |-> 0]
OSError(m, a) == [type |-> "OSError", msg |-> m, arg |-> a, code |-> 0]
SystemExit(c) == [type |-> "SystemExit", msg |-> "", arg |-> <<>>, code |-> c]

(* Classes caught by "except Exception": SystemExit derives from           *)
(* BaseException only.                                                     *)
IsExceptionBare(type) == type \in {"RuntimeError", "OSError", "SystemExit"}
IsExceptionRuntimeOnly(type) == type \in {"RuntimeError"}
IsException(type) == type \in {"RuntimeError", "OSError"}

----------------------------------------------------------------------------
(* get_binary_path, lines 24-45: the platform-to-name mapping.  sys and    *)
(* mach are the lower-cased platform strings.                              *)

Selected(name) == [ok |-> TRUE, name |-> name, msg |-> "", arg |-> <<>>]
Unsupported(msg, a) == [ok |-> FALSE, name |-> "", msg |-> msg, arg |-> a]

BinaryNameWindowsArm(sys, mach) ==
    IF sys = s_linux THEN
        IF mach \in {s_x86_64, s_amd64} THEN Selected("py-license-auditor-linux-x86_64")
        ELSE IF mach \in {s_aarch64, s_arm64} THEN Selected("py-license-auditor-linux-aarch64")
        ELSE Unsupported("Unsupported Linux architecture: ", mach)
    ELSE IF sys = s_darwin THEN
        IF mach \in {s_x86_64, s_amd64} THEN Selected("py-license-auditor-macos-x86_64")
        ELSE IF mach \in {s_aarch64, s_arm64} THEN Selected("py-license-auditor-macos-aarch64")
        ELSE Unsupported("Unsupported macOS architecture: ", mach)
    ELSE IF sys = s_windows THEN
        IF mach \in {s_x86_64, s_amd64, s_aarch64, s_arm64}
        THEN Selected("py-license-auditor-windows-x86_64.exe")
        ELSE Unsupported("Unsupported Windows architecture: ", mach)
    ELSE Unsupported("Unsupported operating system: ", sys)

BinaryNameLinuxDefault(sys, mach) ==
    IF sys = s_linux THEN
        IF mach \in {s_aarch64, s_arm64} THEN Selected("py-license-auditor-linux-aarch64")
        ELSE Selected("py-license-auditor-linux-x86_64")
    ELSE IF sys = s_darwin THEN
        IF mach \in {s_x86_64, s_amd64} THEN Selected("py-license-auditor-macos-x86_64")
        ELSE IF mach \in {s_aarch64, s_arm64} THEN Selected("py-license-auditor-macos-aarch64")
        ELSE Unsupported("Unsupported macOS architecture: ", mach)
    ELSE IF sys = s_windows THEN
        IF mach \in {s_x86_64, s_amd64} THEN Selected("py-license-auditor-windows-x86_64.exe")
        ELSE Unsupported("Unsupported Windows architecture: ", mach)
    ELSE Unsupported("Unsupported operating system: ", sys)

BinaryNameFor(sys, mach) ==
    IF sys = s_linux THEN
        IF mach \in {s_x86_64, s_amd64} THEN Selected("py-license-auditor-linux-x86_64")
        ELSE IF mach \in {s_aarch64, s_arm64} THEN Selected("py-license-auditor-linux-aarch64")
        ELSE Unsupported("Unsupported Linux architecture: ", mach)
    ELSE IF sys = s_darwin THEN
        IF mach \in {s_x86_64, s_amd64} THEN Selected("py-license-auditor-macos-x86_64")
        ELSE IF mach \in {s_aarch64, s_arm64} THEN Selected("py-license-auditor-macos-aarch64")
        ELSE Unsupported("Unsupported macOS architecture: ", mach)
    ELSE IF sys = s_windows THEN
        IF mach \in {s_x86_64, s_amd64} THEN Selected("py-license-auditor-windows-x86_64.exe")
        ELSE Unsupported("Unsupported Windows architecture: ", mach)
    ELSE Unsupported("Unsupported operating system: ", sys)

(* Path.exists() *)
PathExistsAlways(path, fs) == TRUE
PathExists(path, fs) == path \in fs

(* main, line 63: the argument list given to subprocess.run *)
ChildArgsWithProgramName(path, args) == <<path>> \o args
ChildArgs(path, args) == <<path>> \o SubSeq(args, 2, Len(args))

(* main, lines 66-68: the handler prints the error and exits *)
HandleErrorExitZero(e) ==
    [stream |-> "stderr",
     line |-> [prefix |-> "Error: ", msg |-> e.msg, arg |-> e.arg],
     code |-> 0]
HandleErrorToStdout(e) ==
    [stream |-> "stdout",
     line |-> [prefix |-> "Error: ", msg |-> e.msg, arg |-> e.arg],
     code |-> 1]
HandleError(e) ==
    [stream |-> "stderr",
     line |-> [prefix |-> "Error: ", msg |-> e.msg, arg |-> e.arg],
     code |-> 1]

(* history entries *)
Step(op, path, ok, mode) == [op |-> op, path |-> path, ok |-> ok, mode |-> mode]

----------------------------------------------------------------------------
(* Initial state: the host, the command line and the installed files.      *)

RECURSIVE SeqsUpTo(_, _)
SeqsUpTo(S, n) ==
    IF n = 0 THEN { <<>> }
    ELSE LET shorter == SeqsUpTo(S, n - 1)
         IN  shorter \cup { Append(s, x) : s \in shorter, x \in S }

Init ==
    /\ system \in Systems
    /\ machine \in Machines
    /\ argv \in { <<"py-license-auditor">> \o a : a \in SeqsUpTo(ArgValues, MaxArgs) }
    /\ files \in SUBSET BinaryPaths
    /\ \E m \in {420, ModeRunnable} : modes = [p \in files |-> m]
    /\ pc = "start"
    /\ binary_name = <<>>
    /\ binary_path = <<>>
    /\ exc = NoExc
    /\ result = <<>>
    /\ childArgv = <<>>
    /\ stderr = <<>>
    /\ stdout = <<>>
    /\ exitStatus = <<>>
    /\ log = <<>>

----------------------------------------------------------------------------
(* get_binary_path, lines 21-45 *)
MapPlatform ==
    /\ pc = "start"
    /\ LET r == BinaryNameFor(Lower(system), Lower(machine))
       IN  IF r.ok
           THEN /\ binary_name' = <<r.name>>
                /\ pc' = "exists"
                /\ exc' = exc
                /\ log' = Append(log, Step("map", <<r.name>>, TRUE, 0))
           ELSE /\ binary_name' = binary_name
                /\ pc' = "raise"
                /\ exc' = RuntimeError(r.msg, r.arg)
                /\ log' = Append(log, Step("map", <<>>, FALSE, 0))
    /\ UNCHANGED <<system, machine, argv, files, modes, binary_path, result,
                   childArgv, stderr, stdout, exitStatus>>

(* get_binary_path, lines 47-52, and the assignment of line 57 *)
CheckExists ==
    /\ pc = "exists"
    /\ LET path == BinDir \o binary_name
       IN  IF PathExists(path, files)
           THEN /\ binary_path' = path
                /\ pc' = "chmod"
                /\ exc' = exc
                /\ log' = Append(log, Step("exists", path, TRUE, 0))
           ELSE /\ binary_path' = binary_path
                /\ pc' = "raise"
                /\ exc' = RuntimeError("Binary not found: ", path)
                /\ log' = Append(log, Step("exists", path, FALSE, 0))
    /\ UNCHANGED <<system, machine, argv, files, modes, binary_name, result,
                   childArgv, stderr, stdout, exitStatus>>

(* main, line 60: os.chmod succeeds, or raises OSError (no permission,     *)
(* read-only file system, path missing)                                    *)
Chmod ==
    /\ pc = "chmod"
    /\ \E ok \in BOOLEAN :
        IF ok /\ binary_path \in files
        THEN /\ modes' = [modes EXCEPT ![binary_path] = ModeRunnable]
             /\ pc' = "run"
             /\ exc' = exc
             /\ log' = Append(log, Step("chmod", binary_path, TRUE, ModeRunnable))
        ELSE /\ modes' = modes
             /\ pc' = "raise"
             /\ exc' = OSError("chmod: ", binary_path)
             /\ log' = Append(log, Step("chmod", binary_path, FALSE, ModeRunnable))
    /\ UNCHANGED <<system, machine, argv, files, binary_name, binary_path,
                   result, childArgv, stderr, stdout, exitStatus>>

(* main, line 63: subprocess.run starts the child, or raises OSError *)
Spawn ==
    /\ pc = "run"
    /\ \E ok \in BOOLEAN :
        IF ok
        THEN /\ childArgv' = ChildArgs(binary_path, argv)
             /\ pc' = "wait"
             /\ exc' = exc
             /\ log' = Append(log, Step("launch", binary_path, TRUE, 0))
        ELSE /\ childArgv' = childArgv
             /\ pc' = "raise"
             /\ exc' = OSError("exec: ", binary_path)
             /\ log' = Append(log, Step("launch", binary_path, FALSE, 0))
    /\ UNCHANGED <<system, machine, argv, files, modes, binary_name,
                   binary_path, result, stderr, stdout, exitStatus>>

(* main, line 63: the child terminates and subprocess.run returns *)
ChildReturn ==
    /\ pc = "wait"
    /\ \E r \in ReturnCodes : result' = <<r>>
    /\ pc' = "sysexit"
    /\ UNCHANGED <<system, machine, argv, files, modes, binary_name,
                   binary_path, exc, childArgv, stderr, stdout, exitStatus, log>>

(* main, line 64: sys.exit(result.returncode) raises SystemExit inside try *)
SysExit ==
    /\ pc = "sysexit"
    /\ exc' = SystemExit(result[1])
    /\ pc' = "raise"
    /\ UNCHANGED <<system, machine, argv, files, modes, binary_name,
                   binary_path, result, childArgv, stderr, stdout, exitStatus, log>>

(* main, lines 66-68: the exception is caught, reported, and the process   *)
(* exits through sys.exit outside the try block                            *)
Except ==
    /\ pc = "raise"
    /\ IsException(exc.type)
    /\ LET h == HandleError(exc)
       IN  /\ stderr' = IF h.stream = "stderr" THEN Append(stderr, h.line) ELSE stderr
           /\ stdout' = IF h.stream = "stdout" THEN Append(stdout, h.line) ELSE stdout
           /\ exitStatus' = <<h.code>>
    /\ exc' = NoExc
    /\ pc' = "exited"
    /\ UNCHANGED <<system, machine, argv, files, modes, binary_name,
                   binary_path, result, childArgv, log>>

(* main, line 66: an exception the handler does not catch leaves main.     *)
(* SystemExit ends the process with its code; anything else ends it with   *)
(* a traceback.                                                            *)
Propagate ==
    /\ pc = "raise"
    /\ ~IsException(exc.type)
    /\ IF exc.type = "SystemExit"
       THEN /\ exitStatus' = <<exc.code>>
            /\ pc' = "exited"
            /\ stderr' = stderr
       ELSE /\ exitStatus' = <<1>>
            /\ pc' = "crashed"
            /\ stderr' = Append(stderr, [prefix |-> "Traceback", msg |-> exc.msg, arg |-> exc.arg])
    /\ exc' = NoExc
    /\ UNCHANGED <<system, machine, argv, files, modes, binary_name,
                   binary_path, result, childArgv, stdout, log>>

Next ==
    \/ MapPlatform
    \/ CheckExists
    \/ Chmod
    \/ Spawn
    \/ ChildReturn
    \/ SysExit
    \/ Except
    \/ Propagate

Spec == Init /\ [][Next]_vars

(* main is sequential straight-line code: every step that is enabled is    *)
(* taken, and the child is assumed to terminate.                           *)
FairSpec == Spec /\ WF_vars(Next)

----------------------------------------------------------------------------
(* Vocabulary of the properties *)

(* The documented platform table: <<name>> for a supported pair, <<>>      *)
(* for an unsupported one.                                                 *)
DocumentedName(s, m) ==
    LET os   == Lower(s)
        arch == Lower(m)
        x86  == arch = s_x86_64 \/ arch = s_amd64
        arm  == arch = s_aarch64 \/ arch = s_arm64
    IN  CASE os = s_linux /\ x86   -> <<"py-license-auditor-linux-x86_64">>
          [] os = s_linux /\ arm   -> <<"py-license-auditor-linux-aarch64">>
          [] os = s_darwin /\ x86  -> <<"py-license-auditor-macos-x86_64">>
          [] os = s_darwin /\ arm  -> <<"py-license-auditor-macos-aarch64">>
          [] os = s_windows /\ x86 -> <<"py-license-auditor-windows-x86_64.exe">>
          [] OTHER -> <<>>

UnsupportedEnvironment == DocumentedName(system, machine) = <<>>

UnsupportedMessages ==
    { "Unsupported Linux architecture: ", "Unsupported macOS architecture: ",
      "Unsupported Windows architecture: ", "Unsupported operating system: " }

Ops(l) == [i \in 1..Len(l) |-> l[i].op]
IsPrefix(a, b) == Len(a) <= Len(b) /\ \A i \in 1..Len(a) : a[i] = b[i]

Launches == { k \in 1..Len(log) : log[k].op = "launch" /\ log[k].ok }
Launched == Launches # {}
Attempted(op) == \E k \in 1..Len(log) : log[k].op = op
Ended == pc \in {"exited", "crashed"}

----------------------------------------------------------------------------
(* C1: get_binary_path maps every (operating system, architecture) pair,   *)
(* compared case-insensitively, to the one documented executable name, and *)
(* every other pair (windows on arm, unknown systems, unknown              *)
(* architectures) raises an "Unsupported" error and selects no name.       *)
C1_PlatformMapping ==
    pc # "start" =>
        /\ binary_name = DocumentedName(system, machine)
        /\ Len(binary_name) <= 1
        /\ UnsupportedEnvironment =>
            /\ log[1] = Step("map", <<>>, FALSE, 0)
            /\ binary_path = <<>>
            /\ pc = "raise" =>
                /\ exc.type = "RuntimeError"
                /\ exc.msg \in UnsupportedMessages
            /\ pc # "raise" =>
                /\ Len(stderr) = 1
                /\ stderr[1].msg \in UnsupportedMessages

C1_Witness ==
    /\ pc = "raise"
    /\ system = <<"W","i","n","d","o","w","s">>
    /\ machine = <<"A","R","M","6","4">>
    /\ binary_name = <<>>
    /\ exc.msg = "Unsupported Windows architecture: "

(* C2: when the executable was launched and returned code r, the launcher  *)
(* exits with exactly r; the exit is not intercepted by the error handler  *)
(* and not replaced by 1.                                                  *)
C2_ExitForwardsReturnCode ==
    (Ended /\ result # <<>>) => (pc = "exited" /\ exitStatus = result)

C2_Witness ==
    /\ pc = "exited"
    /\ result = <<2>>
    /\ exitStatus = <<2>>

(* C3: the launched executable receives the selected binary path followed  *)
(* by the launcher's arguments after the program name, in order, nothing   *)
(* added, dropped, reordered or rewritten.                                 *)
C3_ArgumentsForwarded ==
    Launched =>
        /\ Len(childArgv) = Len(argv)
        /\ childArgv[1] = BinDir \o DocumentedName(system, machine)
        /\ childArgv[1] = binary_path
        /\ \A i \in 2..Len(argv) : childArgv[i] = argv[i]

C3_Witness ==
    /\ Launched
    /\ argv = <<"py-license-auditor", "--format", "json">>
    /\ childArgv = <<binary_path, "--format", "json">>

(* C4 (as stated): a fatal error of the launcher (unsupported operating    *)
(* system or architecture, executable not found) exits with code 2.        *)
C4_FatalErrorExitsTwo ==
    (Ended /\ ~Attempted("chmod")) => exitStatus = <<2>>

(* C5 (as stated): exit status 1 means an audit finding: the executable    *)
(* was launched and itself returned 1.                                     *)
C5_ExitOneIsAuditFinding ==
    (Ended /\ exitStatus = <<1>>) => (Launched /\ result = <<1>>)

(* C6: exit status 0 is produced only when the executable was launched     *)
(* exactly once and returned 0; every run that does not launch it ends     *)
(* with a non-zero status.                                                 *)
C6_ExitZeroOnlyAfterAudit ==
    Ended =>
        /\ exitStatus = <<0>> => (Cardinality(Launches) = 1 /\ result = <<0>>)
        /\ ~Launched => (exitStatus # <<0>> /\ exitStatus # <<>>)

C6_Witness ==
    /\ pc = "exited"
    /\ exitStatus = <<0>>
    /\ Cardinality(Launches) = 1

(* C7: on an unsupported operating system or architecture the error is     *)
(* raised before the presence check, before any chmod and before any       *)
(* launch, and none of the three happens later in the run.                 *)
C7_UnsupportedSurfacedFirst ==
    (UnsupportedEnvironment /\ pc # "start") =>
        /\ pc \in {"raise", "exited"}
        /\ Ops(log) = <<"map">>
        /\ ~log[1].ok
        /\ childArgv = <<>>
        /\ result = <<>>

C7_Witness ==
    /\ UnsupportedEnvironment
    /\ pc = "exited"
    /\ files # {}
    /\ Ops(log) = <<"map">>

(* C8: the steps are ordered mapping, presence check, chmod to 0o755,      *)
(* launch; a launch happens only after a successful presence check and a   *)
(* successful chmod of the same path; a missing path means no chmod and no *)
(* launch; a failed chmod means no launch.                                 *)
C8_StepOrder ==
    /\ IsPrefix(Ops(log), <<"map", "exists", "chmod", "launch">>)
    /\ \A k \in 1..Len(log) :
        /\ log[k].op = "launch" =>
            /\ \E i \in 1..(k - 1) :
                log[i] = Step("exists", log[k].path, TRUE, 0)
            /\ \E j \in 1..(k - 1) :
                log[j] = Step("chmod", log[k].path, TRUE, ModeRunnable)
            /\ modes[log[k].path] = ModeRunnable
        /\ (log[k].op = "chmod" /\ ~log[k].ok) => ~Attempted("launch")
    /\ (binary_name # <<>> /\ (BinDir \o binary_name) \notin files) =>
        (~Attempted("chmod") /\ ~Attempted("launch"))

C8_Witness ==
    /\ Launched
    /\ Ops(log) = <<"map", "exists", "chmod", "launch">>
    /\ modes[binary_path] = ModeRunnable

(* C9: every launcher-level failure writes exactly one "Error: ..."        *)
(* diagnostic to standard error and nothing to standard output; a run in   *)
(* which the executable was launched and returned writes no diagnostic.    *)
C9_Diagnostics ==
    /\ stdout = <<>>
    /\ Ended =>
        IF Launched
        THEN stderr = <<>>
        ELSE /\ Len(stderr) = 1
             /\ stderr[1].prefix = "Error: "
    /\ ~Ended => stderr = <<>>

C9_Witness ==
    /\ pc = "exited"
    /\ Ops(log) = <<"map", "exists", "chmod">>
    /\ Len(stderr) = 1
    /\ stderr[1].msg = "chmod: "

(* C10: assuming the child terminates, every run ends in a process exit,   *)
(* never in a normal return or an escaped exception; the executable is     *)
(* launched at most once, no step is retried, and the run ends with the    *)
(* child's return code (launched) or the launcher's error exit (not        *)
(* launched).                                                              *)
C10_Terminates ==
    /\ <>(pc = "exited")
    /\ [](pc # "crashed")
    /\ [](Cardinality(Launches) <= 1)
    /\ [](\A i, j \in 1..Len(log) : log[i].op = log[j].op => i = j)
    /\ [](pc = "exited" =>
            \/ Launched /\ result # <<>> /\ exitStatus = result
            \/ ~Launched /\ result = <<>> /\ Len(stderr) = 1 /\ exitStatus = <<1>>)

C10_Witness ==
    /\ pc = "exited"
    /\ Ops(log) = <<"map", "exists", "chmod", "launch">>
    /\ ~log[4].ok
    /\ exitStatus = <<1>>

====
